---- MODULE Spec2Model ----
(***************************************************************************)
(* A model of pythoncodegen/generator.py: a graph of code generators      *)
(* (expression, assignment, function, class, module), the indentation     *)
(* setters and their cascade, the attach operations and str().            *)
(*                                                                         *)
(* A text is a sequence of tokens: one token per indentation character,   *)
(* "\n" for the line terminator, and one token per fixed fragment or      *)
(* caller-supplied string.  Python's + on str is \o, str * int is Repeat, *)
(* sep.join(xs) is Join.                                                   *)
(***************************************************************************)
EXTENDS Integers, Sequences, FiniteSets, TLC

(* ---------------------------------------------------------------------- *)
(* The generators the driver constructs, and their fixed content.         *)
(* ---------------------------------------------------------------------- *)
Expressions == {"e1"}
Assignments == {"a1"}
Functions   == {"f1"}
Classes     == {"c1", "c2"}
Modules     == {"m1"}
Nodes       == Expressions \cup Assignments \cup Functions \cup Classes \cup Modules

\* the bound on the number of calls the driver makes after construction
MaxOps == 3
\* the interpreter's bound on nested calls (sys.getrecursionlimit(), scaled down)
RecursionLimit == 6

\* arguments the driver passes to the setters (valid and invalid ones)
CharacterArgs == {<<"\t">>, <<>>, <<"\t", "\t">>}
SizeArgs      == {0, 1, 2}
LevelArgs     == {-1, 0, 2}

\* constructor arguments of the function
LinesArgs      == {<<>>, <<"e1">>, <<"e1", "a1">>, <<"c2">>}
ParamsArgs     == {<<>>, <<"self", "name">>}
DecoratorsArgs == {<<>>, <<"@cached", "@staticmethod">>}

name == [n \in Nodes |->
           CASE n = "e1" -> "x()"
             [] n = "a1" -> "a"
             [] n = "f1" -> "f"
             [] n = "c1" -> "C"
             [] n = "c2" -> "D"
             [] OTHER    -> "mod"]
value == [n \in Assignments |-> "1"]
super_classes == [n \in Classes |-> IF n = "c2" THEN <<"Base", "Mixin">> ELSE <<>>]

VARIABLES
  indentation_character,     \* node -> text of the character
  indentation_size,          \* node -> int
  indentation_level,         \* node -> int
  indentation_str,           \* node -> text, the stored indent unit
  lines,                     \* function -> sequence of nodes
  params,                    \* function -> sequence of strings
  decorators,                \* function -> sequence of strings
  class_method,              \* function -> BOOLEAN
  class_attributes,          \* class -> sequence of nodes
  nested_class_generators,   \* class -> sequence of nodes
  method_generators,         \* class -> sequence of nodes
  components,                \* module -> sequence of nodes
  out,                       \* the text the last str() returned
  err,                       \* what the last call raised: "none", "ValueError", "RecursionError"
  ops                        \* calls made so far

config == <<indentation_character, indentation_size, indentation_str>>
content == <<lines, params, decorators>>
children == <<class_attributes, nested_class_generators, method_generators, components>>
vars == <<indentation_character, indentation_size, indentation_level, indentation_str,
          lines, params, decorators, class_method, class_attributes,
          nested_class_generators, method_generators, components, out, err, ops>>

(* ---------------------------------------------------------------------- *)
(* Python's string operations on texts.                                   *)
(* ---------------------------------------------------------------------- *)
RECURSIVE Repeat(_, _)
Repeat(s, k) == IF k <= 0 THEN <<>> ELSE s \o Repeat(s, k - 1)

RECURSIVE Join(_, _)
Join(sep, xs) ==
  IF xs = <<>> THEN <<>>
  ELSE IF Len(xs) = 1 THEN xs[1]
  ELSE xs[1] \o sep \o Join(sep, Tail(xs))

NL == <<"\n">>

Result(txt, lv, e) == [txt |-> txt, lv |-> lv, err |-> e]

(* ---------------------------------------------------------------------- *)
(* The indentation setters.  lv is the indentation level of every node,   *)
(* d the number of nested calls the interpreter still allows.  A result   *)
(* carries the levels as the call left them and what it raised.           *)
(* ---------------------------------------------------------------------- *)
update_indentation_str(ch, sz) == Repeat(ch, sz)

\* PythonCodeGenerator.set_indentation_level
Base_set_indentation_level(lv, n, v) ==
  IF v < 0 THEN Result(<<>>, lv, "ValueError")
  ELSE Result(<<>>, [lv EXCEPT ![n] = v], "none")

RECURSIVE set_indentation_level(_, _, _, _)
RECURSIVE update_indentation(_, _, _, _)
RECURSIVE Function_cascade(_, _, _, _)

\* update_indentation(python_code_generators, indentation_level)
update_indentation(lv, gens, v, d) ==
  IF gens = <<>> THEN Result(<<>>, lv, "none")
  ELSE LET r == set_indentation_level(lv, Head(gens), v, d)
       IN  IF r.err # "none" THEN r ELSE update_indentation(r.lv, Tail(gens), v, d)

\* the loop of PythonFunctionCodeGenerator.set_indentation_level over the
\* lines from the i-th on: each gets the function's current level plus one
Function_cascade(lv, n, i, d) ==
  IF i > Len(lines[n]) THEN Result(<<>>, lv, "none")
  ELSE LET r == set_indentation_level(lv, lines[n][i], lv[n] + 1, d)
       IN  IF r.err # "none" THEN r ELSE Function_cascade(r.lv, n, i + 1, d)

\* PythonFunctionCodeGenerator.set_indentation_level
Function_set_indentation_level(lv, n, v, d) ==
  LET r == Base_set_indentation_level(lv, n, v)
  IN  IF r.err # "none" THEN r ELSE Function_cascade(r.lv, n, 1, d)

\* the cascade of a class that forgets its methods
Class_set_indentation_level_skips_methods(lv, n, v, d) ==
  LET r0 == Base_set_indentation_level(lv, n, v)
      r1 == update_indentation(r0.lv, class_attributes[n], r0.lv[n] + 1, d)
      r3 == update_indentation(r1.lv, nested_class_generators[n], r1.lv[n] + 1, d)
  IN  IF r0.err # "none" THEN r0
      ELSE IF r1.err # "none" THEN r1
      ELSE r3

\* PythonClassCodeGenerator.set_indentation_level
Class_set_indentation_level(lv, n, v, d) ==
  LET r0 == Base_set_indentation_level(lv, n, v)
      r1 == update_indentation(r0.lv, class_attributes[n], r0.lv[n] + 1, d)
      r2 == update_indentation(r1.lv, method_generators[n], r1.lv[n] + 1, d)
      r3 == update_indentation(r2.lv, nested_class_generators[n], r2.lv[n] + 1, d)
  IN  IF r0.err # "none" THEN r0
      ELSE IF r1.err # "none" THEN r1
      ELSE IF r2.err # "none" THEN r2
      ELSE r3

\* generator.set_indentation_level(v), dispatched on the generator's class
set_indentation_level(lv, n, v, d) ==
  IF d = 0 THEN Result(<<>>, lv, "RecursionError")
  ELSE IF n \in Functions THEN Function_set_indentation_level(lv, n, v, d - 1)
  ELSE IF n \in Classes THEN Class_set_indentation_level(lv, n, v, d - 1)
  ELSE Base_set_indentation_level(lv, n, v)

(* ---------------------------------------------------------------------- *)
(* str(): the text, the levels as the call left them, what it raised.     *)
(* ---------------------------------------------------------------------- *)
base_indentation(lv, n) == Repeat(indentation_str[n], lv[n])

Expression_generate_str(lv, n) ==
  Result(base_indentation(lv, n) \o <<name[n]>>, lv, "none")

Assignment_generate_str(lv, n) ==
  Result(base_indentation(lv, n) \o <<name[n], " = ", value[n]>> \o NL, lv, "none")

\* a signature that synthesizes the decorator whatever the parameters
Function_generate_signature_any_params(lv, n) ==
  LET user == [i \in 1..Len(decorators[n]) |-> <<decorators[n][i]>>]
      d1   == IF class_method[n]
              THEN user \o <<base_indentation(lv, n) \o <<"@staticmethod">>>>
              ELSE user
      d2   == IF Len(d1) > 0 THEN d1 \o << <<>> >> ELSE d1
      ps   == Join(<<", ">>, [i \in 1..Len(params[n]) |-> <<params[n][i]>>])
  IN  Join(NL, d2) \o base_indentation(lv, n) \o <<"def ", name[n], "(">> \o ps
        \o <<"):">> \o NL

\* PythonFunctionCodeGenerator._generate_signature
Function_generate_signature(lv, n) ==
  LET user == [i \in 1..Len(decorators[n]) |-> <<decorators[n][i]>>]
      d1   == IF class_method[n] /\ Len(params[n]) = 0
              THEN user \o <<base_indentation(lv, n) \o <<"@staticmethod">>>>
              ELSE user
      d2   == IF Len(d1) > 0 THEN d1 \o << <<>> >> ELSE d1
      ps   == Join(<<", ">>, [i \in 1..Len(params[n]) |-> <<params[n][i]>>])
  IN  Join(NL, d2) \o base_indentation(lv, n) \o <<"def ", name[n], "(">> \o ps
        \o <<"):">> \o NL

\* PythonClassCodeGenerator._generate_signature
Class_generate_signature(lv, n) ==
  LET sc == super_classes[n]
      supers == IF Len(sc) > 0
                THEN <<"(">> \o Join(<<", ">>, [i \in 1..Len(sc) |-> <<sc[i]>>]) \o <<")">>
                ELSE <<>>
  IN  base_indentation(lv, n) \o <<"class ", name[n]>> \o supers \o <<":">> \o NL

pass_line(lv, n) == Repeat(indentation_str[n], lv[n] + 1) \o <<"pass">> \o NL

RECURSIVE str(_, _, _)
RECURSIVE str_all(_, _, _)
RECURSIVE Function_generate_lines(_, _, _, _)

\* map(lambda g: str(g), gens): the texts in order, the levels threaded through
str_all(lv, gens, d) ==
  IF gens = <<>> THEN Result(<<>>, lv, "none")
  ELSE LET h == str(lv, Head(gens), d)
       IN  IF h.err # "none" THEN Result(<<>>, h.lv, h.err)
           ELSE LET t == str_all(h.lv, Tail(gens), d)
                IN  Result(<<h.txt>> \o t.txt, t.lv, t.err)

\* a line rendered at the level it stores
Function_generate_line_stored_level(lv, n, line, d) == str(lv, line, d)

\* PythonFunctionCodeGenerator._generate_line
Function_generate_line(lv, n, line, d) ==
  LET s == set_indentation_level(lv, line, lv[n] + 1, d)
  IN  IF s.err # "none" THEN s ELSE str(s.lv, line, d)

\* the map of _generate_body over the lines from the i-th on, joined by ''
Function_generate_lines(lv, n, i, d) ==
  IF i > Len(lines[n]) THEN Result(<<>>, lv, "none")
  ELSE LET h == Function_generate_line(lv, n, lines[n][i], d)
       IN  IF h.err # "none" THEN Result(<<>>, h.lv, h.err)
           ELSE LET t == Function_generate_lines(h.lv, n, i + 1, d)
                IN  Result(h.txt \o NL \o t.txt, t.lv, t.err)

\* PythonFunctionCodeGenerator._generate_body
Function_generate_body(lv, n, d) ==
  IF Len(lines[n]) = 0 THEN Result(pass_line(lv, n), lv, "none")
  ELSE Function_generate_lines(lv, n, 1, d)

\* PythonFunctionCodeGenerator._generate_str
Function_generate_str(lv, n, d) ==
  LET signature == Function_generate_signature(lv, n)
      body == Function_generate_body(lv, n, d)
  IN  Result(signature \o body.txt, body.lv, body.err)

Class_empty(n) ==
  Len(class_attributes[n]) = 0 /\ Len(nested_class_generators[n]) = 0
    /\ Len(method_generators[n]) = 0

\* PythonClassCodeGenerator._generate_body
Class_generate_body(lv, n, d) ==
  IF Class_empty(n) THEN Result(pass_line(lv, n), lv, "none")
  ELSE
    LET a  == str_all(lv, class_attributes[n], d)
        c  == str_all(a.lv, nested_class_generators[n], d)
        m  == str_all(c.lv, method_generators[n], d)
        first_separator  == IF Len(class_attributes[n]) > 0 THEN NL ELSE <<>>
        second_separator == IF Len(nested_class_generators[n]) > 0 THEN NL ELSE <<>>
    IN  IF a.err # "none" THEN a
        ELSE IF c.err # "none" THEN c
        ELSE IF m.err # "none" THEN m
        ELSE Result(Join(<<>>, a.txt) \o first_separator \o Join(NL, c.txt)
                      \o second_separator \o Join(NL, m.txt), m.lv, "none")

\* PythonClassCodeGenerator._generate_str
Class_generate_str(lv, n, d) ==
  LET signature == Class_generate_signature(lv, n)
      body == Class_generate_body(lv, n, d)
  IN  Result(signature \o body.txt, body.lv, body.err)

\* PythonModuleCodeGenerator._generate_str
Module_generate_str(lv, n, d) ==
  LET c == str_all(lv, components[n], d)
  IN  IF c.err # "none" THEN c
      ELSE Result(NL \o NL \o Join(NL \o NL, c.txt) \o NL, c.lv, "none")

\* PythonCodeGenerator.__str__, dispatched on the generator's class
str(lv, n, d) ==
  IF d = 0 THEN Result(<<>>, lv, "RecursionError")
  ELSE IF n \in Expressions THEN Expression_generate_str(lv, n)
  ELSE IF n \in Assignments THEN Assignment_generate_str(lv, n)
  ELSE IF n \in Functions THEN Function_generate_str(lv, n, d - 1)
  ELSE IF n \in Classes THEN Class_generate_str(lv, n, d - 1)
  ELSE Module_generate_str(lv, n, d - 1)

(* ---------------------------------------------------------------------- *)
(* The setters of the indentation character and size: from a node's       *)
(* configuration to its configuration after the call and what it raised.  *)
(* ---------------------------------------------------------------------- *)
Config(n) == [character |-> indentation_character[n], size |-> indentation_size[n],
              str |-> indentation_str[n], err |-> "none"]

\* a setter that forgets _update_indentation_str
set_indentation_character_stale(cfg, c) ==
  IF Len(c) # 1 THEN [cfg EXCEPT !.err = "ValueError"]
  ELSE [cfg EXCEPT !.character = c]

\* PythonCodeGenerator.set_indentation_character
set_indentation_character(cfg, c) ==
  IF Len(c) # 1 THEN [cfg EXCEPT !.err = "ValueError"]
  ELSE [cfg EXCEPT !.character = c, !.str = update_indentation_str(c, cfg.size)]

\* a setter that stores the width before it validates it
set_indentation_size_assigns_first(cfg, k) ==
  LET stored == [cfg EXCEPT !.size = k, !.str = update_indentation_str(cfg.character, k)]
  IN  IF k < 1 THEN [stored EXCEPT !.err = "ValueError"] ELSE stored

\* PythonCodeGenerator.set_indentation_size
set_indentation_size(cfg, k) ==
  IF k < 1 THEN [cfg EXCEPT !.err = "ValueError"]
  ELSE [cfg EXCEPT !.size = k, !.str = update_indentation_str(cfg.character, k)]

(* ---------------------------------------------------------------------- *)
(* The state after construction.                                          *)
(* ---------------------------------------------------------------------- *)
Constructed(L, P, D) ==
  /\ indentation_character = [n \in Nodes |-> <<" ">>]
  /\ indentation_size = [n \in Nodes |-> 4]
  /\ indentation_level = [n \in Nodes |-> 0]
  /\ indentation_str = [n \in Nodes |-> update_indentation_str(<<" ">>, 4)]
  /\ lines \in [Functions -> L]
  /\ params \in [Functions -> P]
  /\ decorators \in [Functions -> D]
  /\ class_method = [n \in Functions |-> FALSE]
  /\ class_attributes = [n \in Classes |-> <<>>]
  /\ nested_class_generators = [n \in Classes |-> <<>>]
  /\ method_generators = [n \in Classes |-> <<>>]
  /\ components = [n \in Modules |-> <<>>]
  /\ out = <<>>
  /\ err = "none"
  /\ ops = 0

Init == Constructed(LinesArgs, ParamsArgs, DecoratorsArgs)

(* ---------------------------------------------------------------------- *)
(* One action per call the driver can make.                               *)
(* ---------------------------------------------------------------------- *)
Called == ops < MaxOps /\ ops' = ops + 1

SetIndentationCharacter(n, c) ==
  LET r == set_indentation_character(Config(n), c)
  IN  /\ Called
      /\ indentation_character' = [indentation_character EXCEPT ![n] = r.character]
      /\ indentation_size' = [indentation_size EXCEPT ![n] = r.size]
      /\ indentation_str' = [indentation_str EXCEPT ![n] = r.str]
      /\ err' = r.err
      /\ out' = <<>>
      /\ UNCHANGED <<indentation_level, content, class_method, children>>

SetIndentationSize(n, k) ==
  LET r == set_indentation_size(Config(n), k)
  IN  /\ Called
      /\ indentation_character' = [indentation_character EXCEPT ![n] = r.character]
      /\ indentation_size' = [indentation_size EXCEPT ![n] = r.size]
      /\ indentation_str' = [indentation_str EXCEPT ![n] = r.str]
      /\ err' = r.err
      /\ out' = <<>>
      /\ UNCHANGED <<indentation_level, content, class_method, children>>

SetIndentationLevel(n, v) ==
  LET r == set_indentation_level(indentation_level, n, v, RecursionLimit)
  IN  /\ Called
      /\ indentation_level' = r.lv
      /\ err' = r.err
      /\ out' = <<>>
      /\ UNCHANGED <<config, content, class_method, children>>

SetClassMethod(f, b) ==
  /\ Called
  /\ class_method' = [class_method EXCEPT ![f] = b]
  /\ err' = "none"
  /\ out' = <<>>
  /\ UNCHANGED <<config, indentation_level, content, children>>

\* PythonClassCodeGenerator.add_class_attribute
AddClassAttribute(c, a) ==
  LET r == set_indentation_level(indentation_level, a, indentation_level[c] + 1,
                                 RecursionLimit)
  IN  /\ Called
      /\ indentation_level' = r.lv
      /\ class_attributes' = IF r.err = "none"
                             THEN [class_attributes EXCEPT ![c] = Append(@, a)]
                             ELSE class_attributes
      /\ err' = r.err
      /\ out' = <<>>
      /\ UNCHANGED <<config, content, class_method, nested_class_generators,
                     method_generators, components>>

\* PythonClassCodeGenerator.add_method
AddMethod(c, f) ==
  LET r == set_indentation_level(indentation_level, f, indentation_level[c] + 1,
                                 RecursionLimit)
  IN  /\ Called
      /\ class_method' = [class_method EXCEPT ![f] = TRUE]
      /\ indentation_level' = r.lv
      /\ method_generators' = IF r.err = "none"
                              THEN [method_generators EXCEPT ![c] = Append(@, f)]
                              ELSE method_generators
      /\ err' = r.err
      /\ out' = <<>>
      /\ UNCHANGED <<config, content, class_attributes, nested_class_generators,
                     components>>

\* an attach that appends the class twice
AddNestedClass_twice(c, k) ==
  LET r == set_indentation_level(indentation_level, k, indentation_level[c] + 1,
                                 RecursionLimit)
  IN  /\ Called
      /\ indentation_level' = r.lv
      /\ nested_class_generators' =
           IF r.err = "none"
           THEN [nested_class_generators EXCEPT ![c] = Append(Append(@, k), k)]
           ELSE nested_class_generators
      /\ err' = r.err
      /\ out' = <<>>
      /\ UNCHANGED <<config, content, class_method, class_attributes,
                     method_generators, components>>

\* PythonClassCodeGenerator.add_nested_class
AddNestedClass(c, k) ==
  LET r == set_indentation_level(indentation_level, k, indentation_level[c] + 1,
                                 RecursionLimit)
  IN  /\ Called
      /\ indentation_level' = r.lv
      /\ nested_class_generators' =
           IF r.err = "none"
           THEN [nested_class_generators EXCEPT ![c] = Append(@, k)]
           ELSE nested_class_generators
      /\ err' = r.err
      /\ out' = <<>>
      /\ UNCHANGED <<config, content, class_method, class_attributes,
                     method_generators, components>>

\* PythonModuleCodeGenerator.add_component
AddComponent(m, x) ==
  /\ Called
  /\ components' = [components EXCEPT ![m] = Append(@, x)]
  /\ err' = "none"
  /\ out' = <<>>
  /\ UNCHANGED <<config, indentation_level, content, class_method, class_attributes,
                 nested_class_generators, method_generators>>

\* str(n)
Str(n) ==
  LET r == str(indentation_level, n, RecursionLimit)
  IN  /\ Called
      /\ indentation_level' = r.lv
      /\ out' = IF r.err = "none" THEN r.txt ELSE <<>>
      /\ err' = r.err
      /\ UNCHANGED <<config, content, class_method, children>>

Next ==
  \/ \E n \in Nodes, c \in CharacterArgs : SetIndentationCharacter(n, c)
  \/ \E n \in Nodes, k \in SizeArgs : SetIndentationSize(n, k)
  \/ \E n \in Nodes, v \in LevelArgs : SetIndentationLevel(n, v)
  \/ \E f \in Functions, b \in BOOLEAN : SetClassMethod(f, b)
  \/ \E c \in Classes, a \in Assignments : AddClassAttribute(c, a)
  \/ \E c \in Classes, f \in Functions : AddMethod(c, f)
  \/ \E c \in Classes, k \in Classes : AddNestedClass(c, k)
  \/ \E m \in Modules, x \in Nodes : AddComponent(m, x)
  \/ \E n \in Nodes : Str(n)

Spec == Init /\ [][Next]_vars

\* a driver that builds the graph and re-levels it
InitTree == Constructed(LinesArgs, {<<>>}, {<<>>})

NextTree ==
  \/ \E n \in Nodes, v \in LevelArgs : SetIndentationLevel(n, v)
  \/ \E c \in Classes, a \in Assignments : AddClassAttribute(c, a)
  \/ \E c \in Classes, f \in Functions : AddMethod(c, f)
  \/ \E c \in Classes, k \in Classes : AddNestedClass(c, k)
  \/ \E m \in Modules, x \in Nodes : AddComponent(m, x)

SpecTree == InitTree /\ [][NextTree]_vars

\* a driver that reconfigures a leaf, a function, a class and a module
ConfigNodes == {"e1", "f1", "c1", "m1"}

InitConfig == Constructed({<<"e1", "a1">>}, {<<>>}, {<<>>})

NextConfig ==
  \/ \E n \in ConfigNodes, c \in CharacterArgs : SetIndentationCharacter(n, c)
  \/ \E n \in ConfigNodes, k \in SizeArgs : SetIndentationSize(n, k)
  \/ \E n \in ConfigNodes, v \in LevelArgs : SetIndentationLevel(n, v)
  \/ AddClassAttribute("c1", "a1")
  \/ AddMethod("c1", "f1")
  \/ AddComponent("m1", "c1")

SpecConfig == InitConfig /\ [][NextConfig]_vars

\* a driver that renders one function, free and as a method, at several levels
InitFunction == Constructed({<<>>, <<"e1", "a1">>, <<"c2">>}, ParamsArgs, DecoratorsArgs)

NextFunction ==
  \/ \E n \in {"e1", "a1", "f1", "c2"}, v \in LevelArgs : SetIndentationLevel(n, v)
  \/ \E n \in {"e1", "f1"} : SetIndentationCharacter(n, <<"\t">>)
  \/ \E n \in {"e1", "f1"} : SetIndentationSize(n, 2)
  \/ \E b \in BOOLEAN : SetClassMethod("f1", b)
  \/ AddMethod("c1", "f1")
  \/ AddClassAttribute("c2", "a1")
  \/ \E n \in {"f1", "c1"} : Str(n)

SpecFunction == InitFunction /\ [][NextFunction]_vars


(* ---------------------------------------------------------------------- *)
(* The shape of the node graph.                                           *)
(* ---------------------------------------------------------------------- *)
\* the generators a container holds, in the order of its collections
Held(n) ==
  IF n \in Functions THEN lines[n]
  ELSE IF n \in Classes
       THEN class_attributes[n] \o nested_class_generators[n] \o method_generators[n]
  ELSE IF n \in Modules THEN components[n]
  ELSE <<>>

Kids(n) == {Held(n)[i] : i \in 1..Len(Held(n))}

\* the generators set_indentation_level of n passes the level on to
CascadeKids(n) == IF n \in Modules THEN {} ELSE Kids(n)

RECURSIVE Closure(_, _)
Closure(S, through) ==
  LET T == S \cup UNION {IF through THEN CascadeKids(x) ELSE Kids(x) : x \in S}
  IN  IF T = S THEN S ELSE Closure(T, through)

Descendants(n) == Closure(Kids(n), FALSE)
CascadeDescendants(n) == Closure(CascadeKids(n), TRUE)
Ancestors(n) == {p \in Nodes : n \in Descendants(p)}

\* how many times x is held, over all containers
Holders(x) ==
  Cardinality(UNION {{<<p, i>> : i \in {j \in 1..Len(Held(p)) : Held(p)[j] = x}} :
                       p \in Nodes})

StrictTree ==
  /\ \A x \in Nodes : Holders(x) <= 1
  /\ \A x \in Nodes : x \notin Descendants(x)

\* every Function and Class from n down holds its generators one level deeper
Leveled(lv, n) ==
  \A p \in {n} \cup CascadeDescendants(n) :
    \A x \in CascadeKids(p) : lv[x] = lv[p] + 1

(* ====================================================================== *)
(* The claims.                                                            *)
(* ====================================================================== *)

\* a step that attaches x to container p
Attach(p, x) ==
  \/ p \in Classes /\ x \in Assignments /\ AddClassAttribute(p, x)
  \/ p \in Classes /\ x \in Functions /\ AddMethod(p, x)
  \/ p \in Classes /\ x \in Classes /\ AddNestedClass(p, x)
  \/ p \in Modules /\ AddComponent(p, x)

\* x is held by nobody and attaching it to p closes no cycle
Fresh(p, x) == Holders(x) = 0 /\ x # p /\ x \notin Ancestors(p)

\* C6 (as stated): in every reachable state no generator is held twice and
\* none is its own ancestor.
C6_AlwaysStrictTree == StrictTree

\* C6 (amended): a step leaves the graph a strict tree unless it attaches a
\* generator that is already held, or the container itself, or one of the
\* container's ancestors.
C6_TreeKeptByFreshAttach ==
  [][StrictTree /\ ~StrictTree' => \E p, x \in Nodes : Attach(p, x) /\ ~Fresh(p, x)]_vars

\* three attaches of fresh generators have built a tree three deep
C6_Witness ==
  /\ StrictTree
  /\ nested_class_generators["c1"] = <<"c2">>
  /\ method_generators["c2"] = <<"f1">>
  /\ class_attributes["c1"] = <<"a1">>
  /\ lines["f1"] = <<"e1">>

\* every container, modules included, holds its generators one level deeper
AllLeveled == \A p \in Nodes : \A x \in Kids(p) : indentation_level[x] = indentation_level[p] + 1

\* C1 (as stated): right after every attach and every set_indentation_level
\* call, every direct child of every Function, Class and Module is one
\* level deeper than its container.
C1_LeveledAfterEveryCall ==
  [][(/\ err' = "none"
      /\ \/ \E p, x \in Nodes : Attach(p, x)
         \/ \E n \in Nodes, v \in LevelArgs : SetIndentationLevel(n, v)) => AllLeveled']_vars

\* C1 (amended): while the graph is a strict tree, right after a Class
\* attach (add_class_attribute, add_method, add_nested_class) the attached
\* generator is one level deeper than the class, right after a successful
\* set_indentation_level(v) the generator is at level v, and in both cases
\* every Function and Class from that generator down holds its generators
\* one level deeper.  add_component and a Module's set_indentation_level
\* pass no level on.
C1_LeveledBelowTheCall ==
  [][StrictTree' /\ err' = "none" =>
       /\ \A p \in Classes, x \in Nodes :
            Len(Held(p)') > Len(Held(p)) /\ Attach(p, x) =>
              /\ indentation_level'[x] = indentation_level[p] + 1
              /\ indentation_level'[p] = indentation_level[p]
              /\ Leveled(indentation_level, x)'
       /\ \A n \in Nodes, v \in LevelArgs :
            indentation_level'[n] = v /\ SetIndentationLevel(n, v) =>
              /\ Leveled(indentation_level, n)'
              /\ n \in Modules =>
                   indentation_level' = [indentation_level EXCEPT ![n] = v]
       /\ \A m \in Modules, x \in Nodes :
            Len(Held(m)') > Len(Held(m)) /\ Attach(m, x) =>
              indentation_level' = indentation_level]_vars

\* c1 was re-levelled to 2 after c2, f1 and f1's line were attached below it
C1_Witness ==
  /\ StrictTree
  /\ nested_class_generators["c1"] = <<"c2">>
  /\ method_generators["c2"] = <<"f1">>
  /\ lines["f1"] = <<"e1">>
  /\ indentation_level["c1"] = 2
  /\ indentation_level["c2"] = 3
  /\ indentation_level["f1"] = 4
  /\ indentation_level["e1"] = 5

State == <<indentation_character, indentation_size, indentation_level, indentation_str,
           lines, params, decorators, class_method, class_attributes,
           nested_class_generators, method_generators, components>>

\* C2 (as stated): str() of any generator leaves every generator's level,
\* character, width, stored indent unit, member flag and collections as
\* they were.
C2_StrIsPure ==
  [][\A n \in Nodes : out' # <<>> /\ Str(n) => State' = State]_vars

\* the groups of a class body, as the code renders them one after another
ClassGroups(c) ==
  LET a == str_all(indentation_level, class_attributes[c], RecursionLimit)
      k == str_all(a.lv, nested_class_generators[c], RecursionLimit)
      m == str_all(k.lv, method_generators[c], RecursionLimit)
  IN  [err |-> IF a.err # "none" THEN a.err ELSE IF k.err # "none" THEN k.err ELSE m.err,
       texts |-> << Join(<<>>, a.txt), Join(NL, k.txt), Join(NL, m.txt) >>]

\* C3 (as stated): the body of a non-empty class is its non-empty groups in
\* the order attributes, nested classes, methods, joined by one line
\* terminator, with nothing before the first, after the last or in place
\* of an empty group.
C3_SeparatorsOnlyBetweenGroups ==
  \A c \in Classes :
    LET g == ClassGroups(c)
        body == Class_generate_body(indentation_level, c, RecursionLimit)
    IN  ~Class_empty(c) /\ g.err = "none" /\ body.err = "none" =>
          body.txt = Join(NL, SelectSeq(g.texts, LAMBDA t : t # <<>>))

\* C4 (as stated): every decorator line of a signature, user-supplied or
\* synthesized, is the function's indent prefix, the decorator and a line
\* terminator, and the def line carries the same prefix.
C4_DecoratorsIndented ==
  \A f \in Functions :
    LET prefix == base_indentation(indentation_level, f)
        all == decorators[f] \o (IF class_method[f] /\ params[f] = <<>>
                                 THEN <<"@staticmethod">> ELSE <<>>)
        ps == Join(<<", ">>, [i \in 1..Len(params[f]) |-> <<params[f][i]>>])
    IN  Function_generate_signature(indentation_level, f) =
          Join(<<>>, [i \in 1..Len(all) |-> prefix \o <<all[i]>> \o NL])
            \o prefix \o <<"def ", name[f], "(">> \o ps \o <<"):">> \o NL

\* C5: a setter called with an invalid argument raises ValueError and leaves
\* every generator's character, width, stored indent unit, level, member
\* flag and collections as they were.
C5_FailedSetterChangesNothing ==
  [][/\ \A n \in Nodes, c \in CharacterArgs :
          Len(c) # 1 /\ SetIndentationCharacter(n, c) =>
            err' = "ValueError" /\ State' = State
     /\ \A n \in Nodes, k \in SizeArgs :
          k < 1 /\ SetIndentationSize(n, k) =>
            err' = "ValueError" /\ State' = State
     /\ \A n \in Nodes, v \in LevelArgs :
          v < 0 /\ SetIndentationLevel(n, v) =>
            err' = "ValueError" /\ State' = State]_vars

\* a setter failed on a graph whose class holds a levelled method and a
\* reconfigured function
C5_Witness ==
  /\ err = "ValueError"
  /\ method_generators["c1"] = <<"f1">>
  /\ indentation_level["f1"] = 1
  /\ indentation_level["e1"] = 2
  /\ indentation_character["f1"] = <<"\t">>

\* C7: the stored indent unit of every generator is its indentation
\* character repeated its indentation width times, and a leaf's text starts
\* with level times width copies of its current character.
C7_IndentUnitCurrent ==
  \A n \in Nodes :
    /\ indentation_str[n] = [i \in 1..indentation_size[n] |-> indentation_character[n][1]]
    /\ Len(indentation_character[n]) = 1 /\ indentation_size[n] >= 1
    /\ n \in Expressions \cup Assignments =>
         LET t == str(indentation_level, n, RecursionLimit).txt
             w == indentation_level[n] * indentation_size[n]
         IN  /\ \A i \in 1..w : t[i] = indentation_character[n][1]
             /\ t[w + 1] = name[n]

\* character and width were both changed, then a setter failed
C7_Witness ==
  /\ indentation_character["e1"] = <<"\t">>
  /\ indentation_size["e1"] = 2
  /\ indentation_str["e1"] = <<"\t", "\t">>
  /\ err = "ValueError"

PadTokens == {" ", "\t"}

\* C9: the decorator lines of a signature are the user-supplied decorators
\* in order, followed by one synthesized @staticmethod line exactly when
\* the member flag is set and there are no parameters; that line, with the
\* function's indent prefix, comes directly before the def line; and the
\* signature opens the function's text.
C9_SynthesizedDecorator ==
  \A f \in Functions :
    LET sig == Function_generate_signature(indentation_level, f)
        prefix == base_indentation(indentation_level, f)
        synth == class_method[f] /\ Len(params[f]) = 0
        defs == {i \in 1..Len(sig) : sig[i] = "def "}
        defAt == CHOOSE i \in defs : TRUE
        words == SelectSeq(SubSeq(sig, 1, defAt - 1),
                           LAMBDA t : t \notin PadTokens \cup {"\n"})
        r == str(indentation_level, f, RecursionLimit)
    IN  /\ Cardinality(defs) = 1
        /\ words = decorators[f] \o (IF synth THEN <<"@staticmethod">> ELSE <<>>)
        /\ synth => SubSeq(sig, defAt - 2 * Len(prefix) - 2, defAt - 1)
                      = prefix \o <<"@staticmethod", "\n">> \o prefix
        /\ r.err = "none" => SubSeq(r.txt, 1, Len(sig)) = sig

\* a method with two user decorators and no parameters was rendered
C9_Witness ==
  /\ method_generators["c1"] = <<"f1">>
  /\ out = <<"@cached", "\n", "@staticmethod", "\n",
             " ", " ", " ", " ", "@staticmethod", "\n",
             " ", " ", " ", " ", "def ", "f", "(", "):", "\n",
             " ", " ", " ", " ", " ", " ", " ", " ", "pass", "\n">>

\* the text of a leaf at level k
LeafAt(x, k) ==
  IF x \in Expressions THEN Repeat(indentation_str[x], k) \o <<name[x]>>
  ELSE Repeat(indentation_str[x], k) \o <<name[x], " = ", value[x], "\n">>

\* the lines of f from the i-th on, each at level k and followed by a
\* line terminator; a container line is levelled to k and rendered
RECURSIVE LinesAt(_, _, _, _)
LinesAt(lv, f, i, k) ==
  IF i > Len(lines[f]) THEN <<>>
  ELSE LET x == lines[f][i]
           s == set_indentation_level(lv, x, k, RecursionLimit)
           t == str(s.lv, x, RecursionLimit)
       IN  (IF x \in Expressions \cup Assignments THEN LeafAt(x, k) ELSE t.txt)
             \o NL \o LinesAt(t.lv, f, i + 1, k)

\* C10: the text of a function at level L is its signature followed by every
\* line in order at level L+1, each followed by a line terminator, whatever
\* level the lines stored before; with no lines, by the single line "pass"
\* at level L+1.
C10_BodyOneLevelDeeper ==
  \A f \in Functions :
    LET r == str(indentation_level, f, RecursionLimit)
        L == indentation_level[f]
    IN  r.err = "none" =>
          r.txt = Function_generate_signature(indentation_level, f)
                    \o (IF lines[f] = <<>>
                        THEN Repeat(indentation_str[f], L + 1) \o <<"pass", "\n">>
                        ELSE LinesAt(indentation_level, f, 1, L + 1))

\* a function re-levelled to 2 was rendered, its lines three units deep
C10_Witness ==
  /\ indentation_level["f1"] = 2
  /\ lines["f1"] = <<"e1", "a1">>
  /\ decorators["f1"] = <<>>
  /\ params["f1"] = <<>>
  /\ ops = 3
  /\ out = Repeat(<<" ">>, 8) \o <<"def ", "f", "(", "):", "\n">>
             \o Repeat(<<" ">>, 12) \o <<"x()", "\n">>
             \o Repeat(<<" ">>, 12) \o <<"a", " = ", "1", "\n", "\n">>

====
